---------------------------- MODULE Spec2Model ----------------------------
(***************************************************************************)
(* Model of trino-iceberg-maintenance: the dispatcher run_maintenance and  *)
(* the per-table MaintenanceTask.execute of                                *)
(* src/trino_iceberg_maintenance/__main__.py, over a policy store (the     *)
(* MAINTENANCE_TABLE), an engine that answers each command with success or *)
(* failure, and a clock.                                                   *)
(***************************************************************************)
EXTENDS Integers, Sequences, FiniteSets, TLC

(***************************************************************************)
(* Bounds of the model.                                                    *)
(***************************************************************************)
\* the clock runs over 0 .. MaxTime
MaxTime == 3
\* number of calls of run_maintenance in one behaviour
MaxCycles == 2
\* NUM_WORKERS is drawn from 1 .. MaxWorkers
MaxWorkers == 2
\* clock units in one day: timedelta(days=d) is d * TicksPerDay units
TicksPerDay == 2

TableNames == {"t1", "t2", "t3"}

(***************************************************************************)
(* Optional values: Python's None / SQL NULL is the empty sequence, a      *)
(* present value v is <<v>>.                                               *)
(***************************************************************************)
None == <<>>
Some(v) == <<v>>
IsNone(x) == x = None
Val(x) == x[1]

\* Python truthiness of an INTEGER column value: None and 0 are falsy.
Truthy(x) == x # None /\ Val(x) # 0

\* datetime.timedelta(days=d), in clock units
timedelta(d) == d * TicksPerDay

VARIABLES
    store,        \* the policy store: table_name -> row of MAINTENANCE_TABLE
    now,          \* the clock: datetime.datetime.now() / current_timestamp(6)
    NUM_WORKERS,  \* the configured worker count
    cycle,        \* calls of run_maintenance begun so far
    dpc,          \* run_maintenance's position: idle, submit, as_completed, raising
    tasks,        \* the rows fetched at the start of the cycle, in fetch order
    queue,        \* the executor's work queue (table names, FIFO)
    yielded,      \* tasks whose future as_completed has yielded
    logged,       \* table names logged by logger.exception in this cycle
    returned,     \* outcome of the last call of run_maintenance
    pc,           \* per task: position of execute (none/created/.../succeeded/failed)
    props,        \* per task: self.maintenance_properties (the snapshot)
    exc,          \* per task: the exception set on its future, or None
    conn,         \* per task: its connection (which one, none/open/closed) and
                  \* the calls of connection_factory it made
    issued,       \* per task: the commands it sent to the engine this cycle
    checked,      \* per task: the outcome of its due-checks and the instant sampled
    perf,         \* per table: successful commands since the clock last advanced
    interrupted,  \* None, or the tasks not yet started when KeyboardInterrupt
                  \* reached run_maintenance
    standalone    \* per table: None, or the due-checks of the standalone script
                  \* and of the package on the table's row at one instant

vars == <<store, now, NUM_WORKERS, cycle, dpc, tasks, queue, yielded, logged,
          returned, pc, props, exc, conn, issued, checked, perf, interrupted,
          standalone>>

dispatcher == <<dpc, tasks, yielded, logged, returned, cycle>>

\* what no step of a task and no step of the collection loop changes
environment == <<NUM_WORKERS, interrupted, standalone>>

(***************************************************************************)
(* Rows of the policy store (MaintenanceProperties).                       *)
(***************************************************************************)
Row(t, sa, la, da, ca, so, lo, do, se, rs, sr, ro) ==
    [table_name |-> t,
     should_analyze |-> sa, last_analyzed_on |-> la, days_to_analyze |-> da,
     columns_to_analyze |-> ca,
     should_optimize |-> so, last_optimized_on |-> lo, days_to_optimize |-> do,
     should_expire_snapshots |-> se, retention_days_snapshots |-> rs,
     should_remove_orphan_files |-> sr, retention_days_orphan_files |-> ro]

\* MaintenanceProperties.from_row: cls(*row), positional
from_row(row) == row

NoProps == Row("", None, None, None, None, None, None, None, None, None, None, None)

(***************************************************************************)
(* Commands sent to the engine.                                            *)
(***************************************************************************)
RemoveOrphanFiles == "remove_orphan_files"
ExpireSnapshots == "expire_snapshots"
Optimize == "optimize"
UpdateLastOptimizedOn == "update_last_optimized_on"
Analyze == "analyze"
UpdateLastAnalyzedOn == "update_last_analyzed_on"

\* a statement: the table it names, its kind, its argument, the engine's answer
Cmd(table, kind, arg, ok) == [table |-> table, kind |-> kind, arg |-> arg, ok |-> ok]

\* f"'{x}'": the column name as a quoted literal
Literal(x) == [quote |-> "'", text |-> x]

\* (mutant) the clause of the standalone script: the names joined unquoted
with_columns_unquoted(columns_to_analyze) ==
    IF columns_to_analyze = None \/ Len(Val(columns_to_analyze)) = 0
    THEN <<>>
    ELSE [i \in DOMAIN Val(columns_to_analyze) |->
            [quote |-> "", text |-> Val(columns_to_analyze)[i]]]

\* with_columns of the ANALYZE statement: "" (no WITH clause) or the
\* elements of WITH (columns = ARRAY[..]), one quoted literal per column
with_columns(columns_to_analyze) ==
    IF columns_to_analyze = None \/ Len(Val(columns_to_analyze)) = 0
    THEN <<>>
    ELSE [i \in DOMAIN Val(columns_to_analyze) |-> Literal(Val(columns_to_analyze)[i])]

(***************************************************************************)
(* The due-check of optimize and of analyze:                               *)
(*   should_x and (not last_x_on or last_x_on + timedelta(days) <= now)    *)
(* "error" is the TypeError of timedelta(days=None).                       *)
(***************************************************************************)
\* (mutant) the comparison of the standalone script, src/trino_iceberg_maintenance.py
ElapsedInverted(last, days, clock) == Val(last) + timedelta(Val(days)) > clock

Elapsed(last, days, clock) == Val(last) + timedelta(Val(days)) <= clock

\* (mutant) the deadline is computed before the flag is looked at
DueCheckDeadlineFirst(should, last, days, clock) ==
    IF last # None /\ days = None THEN "error"
    ELSE IF ~Truthy(should) THEN "not_due"
    ELSE IF last = None THEN "due"
    ELSE IF Elapsed(last, days, clock) THEN "due"
    ELSE "not_due"

DueCheck(should, last, days, clock) ==
    IF ~Truthy(should) THEN "not_due"
    ELSE IF last = None THEN "due"
    ELSE IF days = None THEN "error"
    ELSE IF Elapsed(last, days, clock) THEN "due"
    ELSE "not_due"

\* (mutant) the standalone script with the comparison of the package
DueCheckStandaloneInclusive(should, last, days, clock) ==
    IF ~Truthy(should) THEN "not_due"
    ELSE IF last = None THEN "due"
    ELSE IF days = None THEN "error"
    ELSE IF Val(last) + timedelta(Val(days)) <= clock THEN "due"
    ELSE "not_due"

\* the due-check of the standalone script, src/trino_iceberg_maintenance.py:
\*   should_x and (not last_x_on or last_x_on + timedelta(days) > now)
DueCheckStandalone(should, last, days, clock) ==
    IF ~Truthy(should) THEN "not_due"
    ELSE IF last = None THEN "due"
    ELSE IF days = None THEN "error"
    ELSE IF Val(last) + timedelta(Val(days)) > clock THEN "due"
    ELSE "not_due"

\* except Exception as e: raise MaintenanceTaskException(self.maintenance_properties) from e
MaintenanceTaskException(maintenance_properties, cause) ==
    [type |-> "MaintenanceTaskException",
     table_name |-> maintenance_properties.table_name,
     cause |-> cause]

Running(t) == pc[t] \in {"connect", "orphan", "expire", "optimize", "opt_update",
                         "analyze", "an_update"}
Terminal(t) == pc[t] \in {"succeeded", "failed"}
RunningTasks == {t \in TableNames : Running(t)}

NoCheck == [due |-> "none", at |-> 0]

\* trino_connection, the connection run_maintenance reads the store with
ControlConnection == <<0, "", 0>>

\* (mutant) the factory hands out the connection of run_maintenance
connection_factory_shared(c, t, k) == ControlConnection

\* self.connection_factory(): get_trino_connection builds a new connection at
\* every call; the one built by the k-th call of task t in cycle c is <<c, t, k>>
connection_factory(c, t, k) == <<c, t, k>>

\* a task before its with statement
NoConn == [calls |-> 0, id |-> None, state |-> "none"]

\* (mutant) the connection is used without a with statement
ExitLeaving(c) == c

\* leaving the with block: Connection.__exit__ closes the connection
Exit(c) == [c EXCEPT !.state = IF @ = "open" THEN "closed" ELSE @]
NoPerf == [opt |-> 0, an |-> 0, optUpdFail |-> 0, anUpdFail |-> 0]

(***************************************************************************)
(* Initial states: a store of rows, the clock at 0, nothing running.       *)
(***************************************************************************)
InitWith(Stores, Workers, clock0, cycle0) ==
    /\ store \in Stores
    /\ now = clock0
    /\ NUM_WORKERS \in Workers
    /\ cycle = cycle0
    /\ dpc = "idle"
    /\ tasks = <<>>
    /\ queue = <<>>
    /\ yielded = {}
    /\ logged = {}
    /\ returned = [status |-> "not_called", value |-> None]
    /\ pc = [t \in TableNames |-> "none"]
    /\ props = [t \in TableNames |-> NoProps]
    /\ exc = [t \in TableNames |-> None]
    /\ conn = [t \in TableNames |-> NoConn]
    /\ issued = [t \in TableNames |-> <<>>]
    /\ checked = [t \in TableNames |-> [opt |-> NoCheck, an |-> NoCheck]]
    /\ perf = [t \in TableNames |-> NoPerf]
    /\ interrupted = None
    /\ standalone = [t \in TableNames |-> None]

(***************************************************************************)
(* run_maintenance: SELECT * FROM MAINTENANCE_TABLE, fetchall.  The rows   *)
(* come back in an order SQL leaves open.  A failing SELECT raises out of  *)
(* run_maintenance before any task exists.                                 *)
(***************************************************************************)
FetchOrders(S) ==
    {s \in [1 .. Cardinality(S) -> S] : \A i, j \in DOMAIN s : i # j => s[i] # s[j]}

fetchall(order) == [i \in DOMAIN order |-> store[order[i]]]

run_maintenance ==
    /\ dpc = "idle"
    /\ cycle < MaxCycles
    /\ cycle' = cycle + 1
    /\ \E ok \in BOOLEAN :
         IF ok
         THEN /\ \E order \in FetchOrders(DOMAIN store) : tasks' = fetchall(order)
              /\ dpc' = IF DOMAIN store = {} THEN "as_completed" ELSE "submit"
              /\ returned' = [status |-> "running", value |-> None]
              /\ queue' = <<>>
              /\ yielded' = {}
              /\ logged' = {}
              /\ pc' = [t \in TableNames |-> "none"]
              /\ props' = [t \in TableNames |-> NoProps]
              /\ exc' = [t \in TableNames |-> None]
              /\ conn' = [t \in TableNames |-> NoConn]
              /\ issued' = [t \in TableNames |-> <<>>]
              /\ checked' = [t \in TableNames |-> [opt |-> NoCheck, an |-> NoCheck]]
         ELSE /\ returned' = [status |-> "raised_select", value |-> None]
              /\ UNCHANGED <<dpc, tasks, queue, yielded, logged, pc, props, exc,
                             conn, issued, checked>>
    /\ interrupted' = None
    /\ UNCHANGED <<store, now, NUM_WORKERS, perf, standalone>>

\* number of futures appended so far in the submit loop
Submitted == Cardinality({t \in TableNames : pc[t] # "none"})

\* futures.append(executor.submit(MaintenanceTask(connection_factory, from_row(task)).execute))
submit ==
    /\ dpc = "submit"
    /\ LET task == tasks[Submitted + 1]
           t == task.table_name
       IN /\ props' = [props EXCEPT ![t] = from_row(task)]
          /\ pc' = [pc EXCEPT ![t] = "created"]
          /\ queue' = Append(queue, t)
          /\ dpc' = IF Submitted + 1 = Len(tasks) THEN "as_completed" ELSE "submit"
    /\ UNCHANGED <<store, now, environment, cycle, tasks, yielded, logged, returned,
                   exc, conn, issued, checked, perf>>

\* (mutant) a thread is started for every queued work item
WorkerAlwaysFree == TRUE

\* (mutant) the workers stop taking work items once the call is interrupted
WorkerFreeUntilInterrupted ==
    Cardinality(RunningTasks) < NUM_WORKERS /\ interrupted = None

\* ThreadPoolExecutor(max_workers=int(NUM_WORKERS)): a free worker takes the
\* oldest queued work item
WorkerFree == Cardinality(RunningTasks) < NUM_WORKERS

worker_start(t) ==
    /\ queue # <<>>
    /\ t = Head(queue)
    /\ WorkerFree
    /\ queue' = Tail(queue)
    /\ pc' = [pc EXCEPT ![t] = "connect"]
    /\ UNCHANGED <<store, now, environment, dispatcher, props, exc, conn, issued,
                   checked, perf>>

(***************************************************************************)
(* MaintenanceTask.execute, one action per call to the engine.             *)
(***************************************************************************)
\* (mutant) the optimize block is placed before the expire-snapshots block
StepAfterOptimizeFirst(step) ==
    CASE step = "connect" -> "orphan"
      [] step = "orphan" -> "optimize"
      [] step = "optimize" -> "opt_update"
      [] step = "opt_update" -> "expire"
      [] step = "expire" -> "analyze"
      [] step = "analyze" -> "an_update"
      [] step = "an_update" -> "succeeded"

\* (mutant) the two watermark updates are made at the end of execute
StepAfterBookkeepingLast(step) ==
    CASE step = "connect" -> "orphan"
      [] step = "orphan" -> "expire"
      [] step = "expire" -> "optimize"
      [] step = "optimize" -> "analyze"
      [] step = "analyze" -> "opt_update"
      [] step = "opt_update" -> "an_update"
      [] step = "an_update" -> "succeeded"

\* the statement order of execute
StepAfter(step) ==
    CASE step = "connect" -> "orphan"
      [] step = "orphan" -> "expire"
      [] step = "expire" -> "optimize"
      [] step = "optimize" -> "opt_update"
      [] step = "opt_update" -> "analyze"
      [] step = "analyze" -> "an_update"
      [] step = "an_update" -> "succeeded"

\* (mutant) the exception is swallowed and execute carries on
OnErrorContinue(step) == StepAfter(step)

\* (mutant) the failed call is made again
OnErrorRetry(step) == step

\* where execute goes when a call raises: the except clause ends the task
OnError(step) == "failed"

\* (mutant) the original exception reaches the future unwrapped
WrappedRaw(t, cause) == [type |-> "Exception", table_name |-> "", cause |-> cause]

\* the exception execute leaves on its future
Wrapped(t, cause) == MaintenanceTaskException(props[t], cause)

\* an exception inside the try: the with block releases the connection and
\* the except clause re-raises it wrapped
Raise(t, step, cause) ==
    /\ pc' = [pc EXCEPT ![t] = OnError(step)]
    /\ exc' = [exc EXCEPT ![t] = Some(Wrapped(t, cause))]
    /\ conn' = [conn EXCEPT ![t] = Exit(@)]

\* (mutant) the bookkeeping update is placed after the if-block, not in it
StepAfterSkipIntoUpdate(step) ==
    CASE step = "orphan" -> "expire"
      [] step = "expire" -> "optimize"
      [] step = "optimize" -> "opt_update"
      [] step = "analyze" -> "an_update"

\* the statement after a skipped if-block
StepAfterSkip(step) ==
    CASE step = "orphan" -> "expire"
      [] step = "expire" -> "optimize"
      [] step = "optimize" -> "analyze"
      [] step = "analyze" -> "succeeded"

\* execute moves on; falling off the with block releases the connection
Goto(t, step) ==
    /\ pc' = [pc EXCEPT ![t] = step]
    /\ conn' = [conn EXCEPT ![t] = IF step = "succeeded" THEN Exit(@) ELSE @]
    /\ UNCHANGED exc

\* (mutant) the statements name a table no row of the store configures
TargetUnconfigured(t) == CHOOSE x \in TableNames : x \notin DOMAIN store

\* {table_name} of the statements: the table_name unpacked from the snapshot
Target(t) == props[t].table_name

\* cur.execute(...): the engine receives the command and answers
Send(t, kind, arg, ok) ==
    issued' = [issued EXCEPT ![t] = Append(@, Cmd(Target(t), kind, arg, ok))]

\* with self.connection_factory() as conn: cur = conn.cursor()
connect(t) ==
    /\ pc[t] = "connect"
    /\ \E ok \in BOOLEAN :
         IF ok
         THEN /\ pc' = [pc EXCEPT ![t] = StepAfter("connect")]
              /\ conn' = [conn EXCEPT ![t] =
                            [calls |-> @.calls + 1,
                             id |-> Some(connection_factory(cycle, t, @.calls + 1)),
                             state |-> "open"]]
              /\ UNCHANGED exc
         ELSE /\ pc' = [pc EXCEPT ![t] = OnError("connect")]
              /\ exc' = [exc EXCEPT ![t] = Some(Wrapped(t, "connection_factory"))]
              /\ conn' = [conn EXCEPT ![t].calls = @ + 1]
    /\ UNCHANGED <<store, now, environment, dispatcher, queue, props,
                   issued, checked, perf>>

\* (mutant) expire-snapshots waits for the optimize interval as well
ExpireSnapshotsDueGated(t) ==
    /\ Truthy(props[t].should_expire_snapshots)
    /\ DueCheck(props[t].should_optimize, props[t].last_optimized_on,
                props[t].days_to_optimize, now) = "due"

\* if should_remove_orphan_files:
RemoveOrphanFilesDue(t) == Truthy(props[t].should_remove_orphan_files)

\* if should_expire_snapshots:
ExpireSnapshotsDue(t) == Truthy(props[t].should_expire_snapshots)

\* if should_remove_orphan_files: ALTER TABLE .. EXECUTE remove_orphan_files(..)
remove_orphan_files(t) ==
    /\ pc[t] = "orphan"
    /\ IF RemoveOrphanFilesDue(t)
       THEN \E ok \in BOOLEAN :
              /\ Send(t, RemoveOrphanFiles, props[t].retention_days_orphan_files, ok)
              /\ IF ok THEN Goto(t, StepAfter("orphan"))
                       ELSE Raise(t, "orphan", RemoveOrphanFiles)
       ELSE /\ Goto(t, StepAfterSkip("orphan"))
            /\ UNCHANGED issued
    /\ UNCHANGED <<store, now, environment, dispatcher, queue, props, checked, perf>>

\* if should_expire_snapshots: ALTER TABLE .. EXECUTE expire_snapshots(..)
expire_snapshots(t) ==
    /\ pc[t] = "expire"
    /\ IF ExpireSnapshotsDue(t)
       THEN \E ok \in BOOLEAN :
              /\ Send(t, ExpireSnapshots, props[t].retention_days_snapshots, ok)
              /\ IF ok THEN Goto(t, StepAfter("expire"))
                       ELSE Raise(t, "expire", ExpireSnapshots)
       ELSE /\ Goto(t, StepAfterSkip("expire"))
            /\ UNCHANGED issued
    /\ UNCHANGED <<store, now, environment, dispatcher, queue, props, checked, perf>>

OptimizeDue(t) ==
    DueCheck(props[t].should_optimize, props[t].last_optimized_on,
             props[t].days_to_optimize, now)

AnalyzeDue(t) ==
    DueCheck(props[t].should_analyze, props[t].last_analyzed_on,
             props[t].days_to_analyze, now)

\* if should_optimize and (..): ALTER TABLE .. EXECUTE optimize
optimize(t) ==
    /\ pc[t] = "optimize"
    /\ checked' = [checked EXCEPT ![t].opt = [due |-> OptimizeDue(t), at |-> now]]
    /\ CASE OptimizeDue(t) = "due" ->
              \E ok \in BOOLEAN :
                /\ Send(t, Optimize, None, ok)
                /\ IF ok THEN Goto(t, StepAfter("optimize"))
                         ELSE Raise(t, "optimize", Optimize)
                /\ perf' = [perf EXCEPT ![t].opt = IF ok THEN @ + 1 ELSE @]
         [] OptimizeDue(t) = "not_due" ->
              /\ Goto(t, StepAfterSkip("optimize"))
              /\ UNCHANGED <<issued, perf>>
         [] OptimizeDue(t) = "error" ->
              /\ Raise(t, "optimize", "TypeError")
              /\ UNCHANGED <<issued, perf>>
    /\ UNCHANGED <<store, now, environment, dispatcher, queue, props>>

\* (mutant) the WHERE clause matches no row
SetWatermarkNoMatch(t, column) == store

\* (mutant) the UPDATE writes the watermark the snapshot already held
SetWatermarkStale(t, column) ==
    [r \in DOMAIN store |->
        IF store[r].table_name = props[t].table_name
        THEN [store[r] EXCEPT ![column] = props[t][column]]
        ELSE store[r]]

\* (mutant) the UPDATE has no WHERE clause
SetWatermarkAllRows(t, column) ==
    [r \in DOMAIN store |-> [store[r] EXCEPT ![column] = Some(now)]]

\* (mutant) the UPDATE clears the watermark
SetWatermarkNull(t, column) ==
    [r \in DOMAIN store |->
        IF store[r].table_name = props[t].table_name
        THEN [store[r] EXCEPT ![column] = None]
        ELSE store[r]]

\* (mutant) each UPDATE sets the watermark of the other operation
SetWatermarkSwapped(t, column) ==
    [r \in DOMAIN store |->
        IF store[r].table_name = props[t].table_name
        THEN IF column = "last_optimized_on"
             THEN [store[r] EXCEPT !.last_analyzed_on = Some(now)]
             ELSE [store[r] EXCEPT !.last_optimized_on = Some(now)]
        ELSE store[r]]

\* UPDATE MAINTENANCE_TABLE SET <column> = current_timestamp(6) WHERE table_name = ..
SetWatermark(t, column) ==
    [r \in DOMAIN store |->
        IF store[r].table_name = props[t].table_name
        THEN [store[r] EXCEPT ![column] = Some(now)]
        ELSE store[r]]

update_last_optimized_on(t) ==
    /\ pc[t] = "opt_update"
    /\ \E ok \in BOOLEAN :
         /\ Send(t, UpdateLastOptimizedOn, None, ok)
         /\ IF ok
            THEN /\ store' = SetWatermark(t, "last_optimized_on")
                 /\ Goto(t, StepAfter("opt_update"))
                 /\ UNCHANGED perf
            ELSE /\ Raise(t, "opt_update", UpdateLastOptimizedOn)
                 /\ perf' = [perf EXCEPT ![t].optUpdFail = @ + 1]
                 /\ UNCHANGED store
    /\ UNCHANGED <<now, environment, dispatcher, queue, props, checked>>

\* if should_analyze and (..): ANALYZE .. [WITH (columns = ARRAY[..])]
analyze(t) ==
    /\ pc[t] = "analyze"
    /\ checked' = [checked EXCEPT ![t].an = [due |-> AnalyzeDue(t), at |-> now]]
    /\ CASE AnalyzeDue(t) = "due" ->
              \E ok \in BOOLEAN :
                /\ Send(t, Analyze, with_columns(props[t].columns_to_analyze), ok)
                /\ IF ok THEN Goto(t, StepAfter("analyze"))
                         ELSE Raise(t, "analyze", Analyze)
                /\ perf' = [perf EXCEPT ![t].an = IF ok THEN @ + 1 ELSE @]
         [] AnalyzeDue(t) = "not_due" ->
              /\ Goto(t, StepAfterSkip("analyze"))
              /\ UNCHANGED <<issued, perf>>
         [] AnalyzeDue(t) = "error" ->
              /\ Raise(t, "analyze", "TypeError")
              /\ UNCHANGED <<issued, perf>>
    /\ UNCHANGED <<store, now, environment, dispatcher, queue, props>>

update_last_analyzed_on(t) ==
    /\ pc[t] = "an_update"
    /\ \E ok \in BOOLEAN :
         /\ Send(t, UpdateLastAnalyzedOn, None, ok)
         /\ IF ok
            THEN /\ store' = SetWatermark(t, "last_analyzed_on")
                 /\ Goto(t, StepAfter("an_update"))
                 /\ UNCHANGED perf
            ELSE /\ Raise(t, "an_update", UpdateLastAnalyzedOn)
                 /\ perf' = [perf EXCEPT ![t].anUpdFail = @ + 1]
                 /\ UNCHANGED store
    /\ UNCHANGED <<now, environment, dispatcher, queue, props, checked>>

(***************************************************************************)
(* run_maintenance, the collection loop:                                   *)
(*   for future in as_completed(futures):                                  *)
(*       try: future.result()                                              *)
(*       except MaintenanceTaskException as e: logger.exception(..)        *)
(***************************************************************************)
SubmittedTasks == {t \in TableNames : pc[t] # "none"}

\* (mutant) the loop is left at the first failure it logs
ExhaustedAtFirstFailure == yielded = SubmittedTasks \/ logged # {}

\* the for loop ends when as_completed has yielded every future
Exhausted == yielded = SubmittedTasks

\* (mutant) future.result() is called outside any try
CaughtNothing(e) == FALSE

\* the except clause catches MaintenanceTaskException only
Caught(e) == e.type = "MaintenanceTaskException"

as_completed(t) ==
    /\ dpc = "as_completed"
    /\ Terminal(t)
    /\ t \notin yielded
    /\ ~Exhausted
    /\ yielded' = yielded \cup {t}
    /\ IF exc[t] = None
       THEN UNCHANGED <<logged, dpc>>
       ELSE IF Caught(Val(exc[t]))
            THEN /\ logged' = logged \cup {Val(exc[t]).table_name}
                 /\ UNCHANGED dpc
            ELSE /\ dpc' = "raising"
                 /\ UNCHANGED logged
    /\ UNCHANGED <<store, now, environment, cycle, tasks, queue, returned, pc, props,
                   exc, conn, issued, checked, perf>>


\* what run_maintenance hands back: it has no return statement
ReturnValue == None

\* leaving the with block (shutdown(wait=True)) and the function
run_maintenance_return ==
    /\ dpc \in {"as_completed", "raising", "interrupted"}
    /\ \A t \in SubmittedTasks : Terminal(t)
    /\ dpc = "as_completed" => Exhausted
    /\ dpc' = "idle"
    /\ returned' = CASE dpc = "raising" -> [status |-> "raised_task", value |-> None]
                     [] dpc = "interrupted" -> [status |-> "interrupted", value |-> None]
                     [] OTHER -> [status |-> "returned", value |-> ReturnValue]
    /\ UNCHANGED <<store, now, environment, cycle, tasks, queue, yielded, logged, pc,
                   props, exc, conn, issued, checked, perf>>

\* the clock advances
tick ==
    /\ now < MaxTime
    /\ now' = now + 1
    /\ perf' = [t \in TableNames |-> NoPerf]
    /\ UNCHANGED <<store, environment, dispatcher, queue, pc, props, exc, conn,
                   issued, checked>>

\* the tasks of the fetched rows that no worker has started yet
NotStarted ==
    {tasks[i].table_name : i \in DOMAIN tasks} \cap
        {t \in TableNames : pc[t] \in {"none", "created"}}

\* KeyboardInterrupt reaches run_maintenance inside the with block: the
\* exception leaves the loop it is in, and the with block (shutdown(wait=True))
\* still waits for every work item submitted so far
KeyboardInterrupt ==
    /\ dpc \in {"submit", "as_completed"}
    /\ dpc' = "interrupted"
    /\ interrupted' = Some(NotStarted)
    /\ UNCHANGED <<store, now, NUM_WORKERS, cycle, tasks, queue, yielded, logged,
                   returned, pc, props, exc, conn, issued, checked, perf, standalone>>

Next ==
    \/ run_maintenance
    \/ submit
    \/ \E t \in TableNames : worker_start(t)
    \/ \E t \in TableNames : connect(t)
    \/ \E t \in TableNames : remove_orphan_files(t)
    \/ \E t \in TableNames : expire_snapshots(t)
    \/ \E t \in TableNames : optimize(t)
    \/ \E t \in TableNames : update_last_optimized_on(t)
    \/ \E t \in TableNames : analyze(t)
    \/ \E t \in TableNames : update_last_analyzed_on(t)
    \/ \E t \in TableNames : as_completed(t)
    \/ run_maintenance_return
    \/ tick

(***************************************************************************)
(* The stores the specifications start from.                               *)
(***************************************************************************)
Flags == {None, Some(0), Some(1)}
OnOff == {Some(0), Some(1)}
Absent1 == {None, Some(1)}
Days == {None, Some(0), Some(1)}
Watermarks == {None, Some(0)}

\* every policy of one table: all four operations, every interval and watermark
PolicyRows(t) ==
    {Row(t, sa, la, da, None, so, lo, do, se, Some(7), sr, Some(7)) :
        sa \in Absent1, la \in Watermarks, da \in OnOff,
        so \in Flags, lo \in Watermarks, do \in Days,
        se \in OnOff, sr \in Absent1}

Stores1 == {[t \in {"t1"} |-> r] : r \in PolicyRows("t1")}

Init == InitWith(Stores1, {1}, 0, 0)

Spec == Init /\ [][Next]_vars

\* a few policies per table, for the cycles over several tables
FewRows(t) ==
    {Row(t, sa, None, Some(1), None, so, None, Some(1), Some(0), Some(7), Some(1), Some(7)) :
        sa \in OnOff, so \in OnOff}

StoresOver(T) == {s \in [T -> UNION {FewRows(t) : t \in T}] :
                    \A t \in T : s[t].table_name = t}

\* one cycle over all the tables, with one step of the clock left
InitMany == InitWith(StoresOver({"t1", "t2"}), 1 .. MaxWorkers, MaxTime - 1, MaxCycles - 1)

SpecMany == InitMany /\ [][Next]_vars

\* the same cycle, in which the interpreter may deliver KeyboardInterrupt
NextInterruptible == Next \/ KeyboardInterrupt

SpecInterruptible == InitMany /\ [][NextInterruptible]_vars

\* one cycle over a store that configures none, one or two of the tables
InitSome ==
    InitWith(UNION {StoresOver(T) : T \in SUBSET {"t1", "t2"}}, 1 .. MaxWorkers,
             MaxTime - 1, MaxCycles - 1)

SpecSome == InitSome /\ [][Next]_vars

\* one cycle over one table whose row leaves parameters out (NULL) and names
\* columns to analyze
Absent7 == {None, Some(7)}
Columns == {None, Some(<<>>), Some(<<"a">>), Some(<<"b", "a">>)}

ParamRows(t) ==
    {Row(t, sa, la, da, ca, so, lo, do, se, rs, sr, ro) :
        sa \in Flags, la \in Watermarks, da \in Absent1, ca \in Columns,
        so \in OnOff, lo \in Watermarks, do \in Absent1,
        se \in OnOff, rs \in Absent7, sr \in OnOff, ro \in Absent7}

InitParams ==
    InitWith({[t \in {"t1"} |-> r] : r \in ParamRows("t1")}, {1},
             MaxTime - 1, MaxCycles - 1)

SpecParams == InitParams /\ [][Next]_vars

\* two cycles over two tables that both write watermarks: the first
\* optimizes, the second analyzes, each with a watermark or without
WritingRows(t) ==
    IF t = "t1"
    THEN {Row(t, Some(0), None, None, None, Some(1), lo, Some(1), Some(0), None,
              Some(1), Some(7)) : lo \in Watermarks}
    ELSE {Row(t, Some(1), la, Some(0), None, Some(0), None, None, Some(1), Some(7),
              Some(0), None) : la \in Watermarks}

InitWriting ==
    InitWith({s \in [{"t1", "t2"} -> WritingRows("t1") \cup WritingRows("t2")] :
                \A t \in DOMAIN s : s[t] \in WritingRows(t)},
             {MaxWorkers}, MaxTime - 2, MaxCycles - 2)

SpecWriting == InitWriting /\ [][Next]_vars

\* the two variants of execute evaluate their due-checks on the row of a
\* table, at an instant of the clock
due_checks(t) ==
    /\ t \in DOMAIN store
    /\ LET row == from_row(store[t])
       IN standalone' = [standalone EXCEPT ![t] = Some(
            [row |-> row, at |-> now,
             script |->
               [opt |-> DueCheckStandalone(row.should_optimize, row.last_optimized_on,
                                           row.days_to_optimize, now),
                an |-> DueCheckStandalone(row.should_analyze, row.last_analyzed_on,
                                          row.days_to_analyze, now)],
             package |->
               [opt |-> DueCheck(row.should_optimize, row.last_optimized_on,
                                 row.days_to_optimize, now),
                an |-> DueCheck(row.should_analyze, row.last_analyzed_on,
                                row.days_to_analyze, now)]])]
    /\ UNCHANGED <<store, now, NUM_WORKERS, interrupted, dispatcher, queue, pc, props,
                   exc, conn, issued, checked, perf>>

\* rows with watermarks up to two days old, at every instant of the clock
VariantRows(t) ==
    {Row(t, sa, la, da, None, so, lo, do, Some(0), None, Some(0), None) :
        sa \in Flags, la \in {None, Some(0), Some(1)}, da \in Days,
        so \in Flags, lo \in {None, Some(0), Some(1)}, do \in Days}

InitVariants ==
    InitWith({[t \in {"t1"} |-> r] : r \in VariantRows("t1")}, {1}, 0, 0)

NextVariants == tick \/ \E t \in TableNames : due_checks(t)

SpecVariants == InitVariants /\ [][NextVariants]_vars

\* one cycle over three tables with more tables than workers; the worker
\* threads and the dispatcher's loops are scheduled fairly and every call to
\* the engine returns
FairRows ==
    [t \in TableNames |->
        CASE t = "t1" -> Row(t, Some(0), None, None, None, Some(1), None, Some(1),
                             Some(0), None, Some(0), None)
          [] t = "t2" -> Row(t, Some(1), None, Some(1), None, Some(0), None, None,
                             Some(0), None, Some(0), None)
          [] OTHER -> Row(t, Some(0), None, None, None, Some(0), None, None,
                          Some(0), None, Some(1), Some(7))]

InitFair == InitWith({FairRows}, 1 .. MaxWorkers, MaxTime - 1, MaxCycles - 1)

Fairness ==
    /\ WF_vars(submit)
    /\ WF_vars(run_maintenance_return)
    /\ \A t \in TableNames :
         /\ WF_vars(worker_start(t))
         /\ WF_vars(connect(t))
         /\ WF_vars(remove_orphan_files(t))
         /\ WF_vars(expire_snapshots(t))
         /\ WF_vars(optimize(t))
         /\ WF_vars(update_last_optimized_on(t))
         /\ WF_vars(analyze(t))
         /\ WF_vars(update_last_analyzed_on(t))
         /\ WF_vars(as_completed(t))

FairSpec == InitFair /\ [][Next]_vars /\ Fairness

(***************************************************************************)
(* The claims.                                                             *)
(***************************************************************************)
Tasks == {t \in TableNames : pc[t] \notin {"none", "created"}}

\* positions of the commands of one kind in a task's log
At(t, kind) == {i \in DOMAIN issued[t] : issued[t][i].kind = kind}
Sent(t, kind) == At(t, kind) # {}
SentOk(t, kind) == \E i \in At(t, kind) : issued[t][i].ok

Rank(kind) ==
    CASE kind = RemoveOrphanFiles -> 1
      [] kind = ExpireSnapshots -> 2
      [] kind = Optimize -> 3
      [] kind = UpdateLastOptimizedOn -> 3
      [] kind = Analyze -> 4
      [] kind = UpdateLastAnalyzedOn -> 4

Maintenance == {RemoveOrphanFiles, ExpireSnapshots, Optimize, Analyze}

\* C1: within one task the maintenance commands are issued in the order
\* remove-orphan-files, expire-snapshots, optimize, analyze: no command of a
\* later kind precedes a command of an earlier kind.
C1_FixedOrder ==
    \A t \in TableNames :
      \A i, j \in DOMAIN issued[t] :
        (i < j /\ issued[t][i].kind \in Maintenance /\ issued[t][j].kind \in Maintenance)
          => Rank(issued[t][i].kind) <= Rank(issued[t][j].kind)

\* a task that issued all four maintenance commands
C1_Witness ==
    \E t \in TableNames : \A k \in Maintenance : SentOk(t, k)

\* the due rule of the specification, with the instant the task sampled
SpecDue(should, last, days, at) ==
    Truthy(should) /\ (last = None \/ Val(last) + Val(days) * TicksPerDay <= at)

\* the interval is an integer whenever the rule has to read it
Readable(should, last, days) == (Truthy(should) /\ last # None) => days # None

\* C2: for optimize and for analyze, the operation is due in a task (its
\* command is issued) iff its flag is set and its watermark is absent or
\* watermark + interval <= now; the boundary is inclusive.
C2_DueRule ==
    \A t \in TableNames :
      /\ (checked[t].opt.due # "none"
            /\ Readable(props[t].should_optimize, props[t].last_optimized_on,
                        props[t].days_to_optimize))
           => (Sent(t, Optimize)
                 <=> SpecDue(props[t].should_optimize, props[t].last_optimized_on,
                             props[t].days_to_optimize, checked[t].opt.at))
      /\ (checked[t].an.due # "none"
            /\ Readable(props[t].should_analyze, props[t].last_analyzed_on,
                        props[t].days_to_analyze))
           => (Sent(t, Analyze)
                 <=> SpecDue(props[t].should_analyze, props[t].last_analyzed_on,
                             props[t].days_to_analyze, checked[t].an.at))

\* a watermark exactly d days old (d >= 1) at the check, and optimize issued
C2_Witness ==
    \E t \in TableNames :
      /\ props[t].last_optimized_on # None
      /\ props[t].days_to_optimize # None
      /\ Val(props[t].days_to_optimize) >= 1
      /\ checked[t].opt.due = "due"
      /\ checked[t].opt.at
           = Val(props[t].last_optimized_on) + Val(props[t].days_to_optimize) * TicksPerDay
      /\ Sent(t, Optimize)

\* C3: a watermark update is issued only after its action returned success
\* earlier in the same task, and a task whose action failed or was never
\* issued leaves the watermark of its table as it found it.
C3_UpdateOnlyAfterSuccess ==
    \A t \in DOMAIN store :
      /\ \A i \in At(t, UpdateLastOptimizedOn) :
           \E j \in At(t, Optimize) : j < i /\ issued[t][j].ok
      /\ \A i \in At(t, UpdateLastAnalyzedOn) :
           \E j \in At(t, Analyze) : j < i /\ issued[t][j].ok
      /\ (t \in Tasks /\ ~SentOk(t, Optimize))
           => store[t].last_optimized_on = props[t].last_optimized_on
      /\ (t \in Tasks /\ ~SentOk(t, Analyze))
           => store[t].last_analyzed_on = props[t].last_analyzed_on

\* a task wrote both watermarks, each after its action
C3_Witness ==
    \E t \in DOMAIN store :
      /\ SentOk(t, UpdateLastOptimizedOn)
      /\ SentOk(t, UpdateLastAnalyzedOn)
      /\ store[t].last_optimized_on # props[t].last_optimized_on

\* C4: once a command of a task fails, or its connection cannot be made, the
\* task issues nothing further and is Failed; a Succeeded task had no failure.
C4_FailFast ==
    \A t \in TableNames :
      /\ \A i \in DOMAIN issued[t] :
           ~issued[t][i].ok => (i = Len(issued[t]) /\ pc[t] = "failed")
      /\ pc[t] = "succeeded" => exc[t] = None
      /\ exc[t] # None => pc[t] = "failed"

\* a task failed at its second watermark update, after five commands
C4_Witness ==
    \E t \in TableNames :
      /\ pc[t] = "failed"
      /\ Len(issued[t]) >= 2
      /\ issued[t][Len(issued[t])].kind = UpdateLastAnalyzedOn
      /\ ~issued[t][Len(issued[t])].ok

\* the kinds of the commands of a task's log, in order
Kinds(t) == [i \in DOMAIN issued[t] |-> issued[t][i].kind]

IsPrefix(a, b) == Len(a) <= Len(b) /\ \A i \in DOMAIN a : a[i] = b[i]

\* what the row of a task alone asks for, given the instants it sampled
Plan(t) ==
    (IF Truthy(props[t].should_remove_orphan_files) THEN <<RemoveOrphanFiles>> ELSE <<>>)
    \o (IF Truthy(props[t].should_expire_snapshots) THEN <<ExpireSnapshots>> ELSE <<>>)
    \o (IF checked[t].opt.due # "none"
           /\ SpecDue(props[t].should_optimize, props[t].last_optimized_on,
                      props[t].days_to_optimize, checked[t].opt.at)
        THEN <<Optimize, UpdateLastOptimizedOn>> ELSE <<>>)
    \o (IF checked[t].an.due # "none"
           /\ SpecDue(props[t].should_analyze, props[t].last_analyzed_on,
                      props[t].days_to_analyze, checked[t].an.at)
        THEN <<Analyze, UpdateLastAnalyzedOn>> ELSE <<>>)

CallOver == returned.status \in {"returned", "raised_task"}

\* C5: when the task of a table fails, the task of every other table is
\* still started, sends the commands its own row asks for (all of them when
\* it succeeds, a prefix cut at its own failure otherwise) and is terminal
\* when the call ends, and the call ends normally.
C5_FailureIsolation ==
    /\ \A b \in DOMAIN store :
         /\ IsPrefix(Kinds(b), Plan(b))
         /\ pc[b] = "succeeded" =>
              (Kinds(b) = Plan(b) /\ \A i \in DOMAIN issued[b] : issued[b][i].ok)
         /\ (pc[b] = "failed" /\ issued[b] # <<>> /\ issued[b][Len(issued[b])].ok)
              => Val(exc[b]).cause = "TypeError"
    /\ \A a, b \in DOMAIN store :
         (a # b /\ pc[a] = "failed" /\ CallOver)
           => (returned.status = "returned" /\ Terminal(b))

\* one task failed on its connection, the other ran all of its commands
C5_Witness ==
    \E a, b \in DOMAIN store :
      /\ a # b
      /\ returned.status = "returned"
      /\ pc[a] = "failed"
      /\ issued[a] = <<>>
      /\ pc[b] = "succeeded"
      /\ Kinds(b) = <<RemoveOrphanFiles, Optimize, UpdateLastOptimizedOn,
                      Analyze, UpdateLastAnalyzedOn>>

\* C6 as stated (for the runs in which no watermark update failed): with the
\* clock standing still, optimize and analyze are performed at most once per
\* table, whatever the interval, 0 included.
C6_Original ==
    \A t \in TableNames :
      (perf[t].optUpdFail = 0 /\ perf[t].anUpdFail = 0)
        => (perf[t].opt <= 1 /\ perf[t].an <= 1)

\* C6 amended: with an interval of at least one day and the clock standing
\* still, optimize (analyze) is performed at most once per table, and once
\* more for each cycle whose watermark update failed after it.
C6_Idempotence ==
    \A t \in DOMAIN store :
      /\ (store[t].days_to_optimize # None /\ Val(store[t].days_to_optimize) >= 1)
           => perf[t].opt <= 1 + perf[t].optUpdFail
      /\ (store[t].days_to_analyze # None /\ Val(store[t].days_to_analyze) >= 1)
           => perf[t].an <= 1 + perf[t].anUpdFail

\* the second cycle, at the instant of the first, found optimize not due
C6_Witness ==
    \E t \in DOMAIN store :
      /\ cycle = 2
      /\ perf[t].opt = 1
      /\ perf[t].optUpdFail = 0
      /\ store[t].days_to_optimize = Some(1)
      /\ store[t].last_optimized_on = Some(now)
      /\ Truthy(props[t].should_optimize)
      /\ checked[t].opt = [due |-> "not_due", at |-> now]
      /\ pc[t] = "succeeded"

\* C7: with should_optimize set and an interval d > 0, a task that finds no
\* watermark executes optimize and sets last_optimized_on to the instant of
\* its cycle; a later task executes optimize only once d days have elapsed
\* since the watermark, and then it does, and advances the watermark.
C7_Rearm ==
    \A t \in DOMAIN store :
      LET p == props[t]
          due == Val(p.last_optimized_on) + Val(p.days_to_optimize) * TicksPerDay
      IN (t \in Tasks /\ Truthy(p.should_optimize)
            /\ p.days_to_optimize # None /\ Val(p.days_to_optimize) > 0)
         => /\ (pc[t] = "succeeded" /\ p.last_optimized_on = None)
                 => /\ SentOk(t, Optimize)
                    /\ store[t].last_optimized_on # None
                    /\ checked[t].opt.at <= Val(store[t].last_optimized_on)
                    /\ Val(store[t].last_optimized_on) <= now
            /\ (p.last_optimized_on # None /\ Sent(t, Optimize))
                 => due <= checked[t].opt.at
            /\ (pc[t] = "succeeded" /\ p.last_optimized_on # None
                  /\ due <= checked[t].opt.at)
                 => /\ SentOk(t, Optimize)
                    /\ Val(store[t].last_optimized_on) >= checked[t].opt.at
                    /\ Val(store[t].last_optimized_on) > Val(p.last_optimized_on)

\* the watermark a cycle wrote at instant 1 is one day old at instant 3: the
\* next cycle optimizes again and advances it
C7_Witness ==
    \E t \in DOMAIN store :
      /\ cycle = 2
      /\ props[t].last_optimized_on = Some(TicksPerDay - 1)
      /\ props[t].days_to_optimize = Some(1)
      /\ SentOk(t, Optimize)
      /\ store[t].last_optimized_on = Some(2 * TicksPerDay - 1)
      /\ pc[t] = "succeeded"

\* C8: at most NUM_WORKERS tasks are Running at any instant, and once the
\* rows are fetched every row's task reaches a terminal state.
C8_BoundedParallelism ==
    /\ [](Cardinality(RunningTasks) <= NUM_WORKERS)
    /\ (dpc = "submit") ~> (dpc = "idle" /\ \A t \in DOMAIN store : Terminal(t))

\* every worker is busy while a task waits in the queue
C8_Witness ==
    /\ NUM_WORKERS = 2
    /\ Cardinality(RunningTasks) = NUM_WORKERS
    /\ queue # <<>>

\* the report of the specification
Report ==
    [succeeded |-> Cardinality({t \in DOMAIN store : pc[t] = "succeeded"}),
     failed |-> Cardinality({t \in DOMAIN store : pc[t] = "failed"}),
     failures |-> {[table_name |-> t, error |-> Val(exc[t]).cause] :
                     t \in {x \in DOMAIN store : pc[x] = "failed"}}]

C10_ErrorsTagged ==
    /\ \A t \in TableNames :
         /\ pc[t] = "failed"
              => /\ exc[t] # None
                 /\ Val(exc[t]).type = "MaintenanceTaskException"
                 /\ Val(exc[t]).table_name = t
                 /\ props[t].table_name = t
         /\ (t \in yielded /\ pc[t] = "failed") => t \in logged
    /\ dpc # "raising"
    /\ returned.status # "raised_task"

\* one task failed on its connection, another on its watermark update; both
\* were logged and the call returned
C10_Witness ==
    \E a, b \in TableNames :
      /\ returned.status = "returned"
      /\ pc[a] = "failed" /\ Val(exc[a]).cause = "connection_factory"
      /\ pc[b] = "failed" /\ Val(exc[b]).cause = UpdateLastOptimizedOn
      /\ logged = {a, b}

\* C11: each task calls the connection factory exactly once and gets a
\* connection that is neither the one run_maintenance reads the store with nor
\* the one of another task; a terminal task that had acquired a connection has
\* released it, and no connection is open once the cycle has returned.
C11_ConnectionLifecycle ==
    /\ \A t \in TableNames :
         /\ conn[t].calls <= 1
         /\ pc[t] \in {"orphan", "expire", "optimize", "opt_update", "analyze",
                       "an_update", "succeeded", "failed"} => conn[t].calls = 1
         /\ conn[t].id # None
              => /\ Val(conn[t].id) # ControlConnection
                 /\ \A u \in TableNames \ {t} : conn[u].id # conn[t].id
         /\ (Terminal(t) /\ conn[t].id # None) => conn[t].state = "closed"
         /\ (Running(t) /\ pc[t] # "connect") => conn[t].state = "open"
    /\ dpc = "idle" => \A t \in TableNames : conn[t].state # "open"

\* the cycle returned after one task succeeded and one failed on a command,
\* each on a connection of its own
C11_Witness ==
    \E a, b \in DOMAIN store :
      /\ returned.status = "returned"
      /\ pc[a] = "succeeded" /\ conn[a].state = "closed"
      /\ pc[b] = "failed" /\ issued[b] # <<>> /\ conn[b].state = "closed"
      /\ conn[a].id # conn[b].id

\* C12 as stated: once the signal that cancels a cycle has been raised (the
\* only one run_maintenance can receive is KeyboardInterrupt), no task that
\* had not started is started afterwards.
C12_Original ==
    interrupted # None
      => \A t \in Val(interrupted) : pc[t] \in {"none", "created"}

\* C12 amended: run_maintenance has no cancellation signal of its own.  When
\* it is interrupted, the work items already submitted are still handed to
\* the workers and started, every started task runs on to Succeeded or to
\* Failed with its own exception, and the call ends only when every submitted
\* task is terminal; only the rows not yet submitted get no task.
C12_NoCancellation ==
    interrupted # None
      => /\ (queue # <<>> /\ Cardinality(RunningTasks) < NUM_WORKERS)
              => ENABLED worker_start(Head(queue))
         /\ \A t \in TableNames :
              /\ pc[t] = "failed" => exc[t] # None
              /\ (pc[t] = "none" /\ t \in DOMAIN store) => t \in Val(interrupted)
         /\ dpc = "idle" => \A t \in SubmittedTasks : Terminal(t)

\* the call was interrupted while a task waited in the queue; the task was
\* started after that, ran all its commands and succeeded before the call ended
C12_Witness ==
    /\ interrupted # None
    /\ returned.status = "interrupted"
    /\ \E t \in Val(interrupted) : pc[t] = "succeeded" /\ Len(issued[t]) >= 2

\* the operation a failure of a task is owed to: the kind of the command that
\* failed, or the due-check that raised
FailedIn(t) ==
    LET cause == Val(exc[t]).cause
    IN CASE cause = UpdateLastOptimizedOn -> Optimize
         [] cause = UpdateLastAnalyzedOn -> Analyze
         [] cause = "TypeError" /\ checked[t].an.due = "error" -> Analyze
         [] cause = "TypeError" -> Optimize
         [] OTHER -> cause

\* the should_* flag of a maintenance operation in a task's snapshot
Flag(t, kind) ==
    CASE kind = RemoveOrphanFiles -> props[t].should_remove_orphan_files
      [] kind = ExpireSnapshots -> props[t].should_expire_snapshots
      [] kind = Optimize -> props[t].should_optimize
      [] kind = Analyze -> props[t].should_analyze

\* C13: for each of the four operations, when its should_* flag is false or
\* absent the task never issues it (nor its watermark update), whatever its
\* watermark, interval, retention and columns are, absent included, and the
\* task never fails in that operation.
C13_DisabledSkipped ==
    \A t \in TableNames : \A kind \in Maintenance :
      (t \in Tasks /\ ~Truthy(Flag(t, kind)))
        => /\ \A i \in DOMAIN issued[t] : Rank(issued[t][i].kind) # Rank(kind)
           /\ kind = Optimize => checked[t].opt.due \in {"none", "not_due"}
           /\ kind = Analyze => checked[t].an.due \in {"none", "not_due"}
           /\ exc[t] # None => FailedIn(t) # kind

\* a task whose four flags are off or absent succeeded without a command,
\* although its row has watermarks and no interval, no retention
C13_Witness ==
    \E t \in TableNames :
      /\ pc[t] = "succeeded"
      /\ issued[t] = <<>>
      /\ \A kind \in Maintenance : ~Truthy(Flag(t, kind))
      /\ props[t].should_analyze = None
      /\ props[t].last_optimized_on # None /\ props[t].days_to_optimize = None
      /\ props[t].last_analyzed_on # None /\ props[t].days_to_analyze = None
      /\ props[t].retention_days_snapshots = None
      /\ props[t].retention_days_orphan_files = None
      /\ props[t].columns_to_analyze = Some(<<"b", "a">>)

\* the rows a call of run_maintenance has just fetched for table t
Fetched(t) == {i \in DOMAIN tasks' : tasks'[i].table_name = t}

\* C14: within one cycle a task attempts each command at most once; and when
\* the optimize (analyze) command of a task failed, the watermark of its
\* table is as the task found it, so that the row the next call of
\* run_maintenance fetches makes optimize (analyze) due again.
C14_RetryAcrossCycles ==
    /\ [](\A t \in TableNames : \A i, j \in DOMAIN issued[t] :
            issued[t][i].kind = issued[t][j].kind => i = j)
    /\ [][\A t \in DOMAIN store :
            /\ (Sent(t, Optimize) /\ ~SentOk(t, Optimize))
                 => /\ store[t].last_optimized_on = props[t].last_optimized_on
                    /\ (dpc = "idle" /\ dpc' = "submit")
                         => \E i \in Fetched(t) :
                              SpecDue(tasks'[i].should_optimize,
                                      tasks'[i].last_optimized_on,
                                      tasks'[i].days_to_optimize, now')
            /\ (Sent(t, Analyze) /\ ~SentOk(t, Analyze))
                 => /\ store[t].last_analyzed_on = props[t].last_analyzed_on
                    /\ (dpc = "idle" /\ dpc' = "submit")
                         => \E i \in Fetched(t) :
                              SpecDue(tasks'[i].should_analyze,
                                      tasks'[i].last_analyzed_on,
                                      tasks'[i].days_to_analyze, now')]_vars

\* the optimize command of a row with a watermark failed, the watermark is
\* as it was, and the call has returned with another cycle to come
C14_Witness ==
    \E t \in DOMAIN store :
      /\ cycle < MaxCycles
      /\ returned.status = "returned"
      /\ pc[t] = "failed"
      /\ Val(exc[t]).cause = Optimize
      /\ props[t].last_optimized_on # None
      /\ store[t].last_optimized_on = props[t].last_optimized_on

\* C15: in a task whose connection was established, remove-orphan-files is
\* issued iff should_remove_orphan_files is set, and expire-snapshots is
\* issued iff should_expire_snapshots is set and remove-orphan-files did not
\* fail; no watermark, interval or earlier cycle enters into it.
C15_NoStalenessGate ==
    \A t \in TableNames :
      conn[t].id # None
        => /\ pc[t] # "orphan"
                => (Sent(t, RemoveOrphanFiles)
                      <=> Truthy(props[t].should_remove_orphan_files))
           /\ pc[t] \notin {"orphan", "expire"}
                => (Sent(t, ExpireSnapshots)
                      <=> (/\ Truthy(props[t].should_expire_snapshots)
                           /\ Sent(t, RemoveOrphanFiles) => SentOk(t, RemoveOrphanFiles)))

\* the second cycle issued both commands again, at the instant at which the
\* first cycle had optimized, and found optimize not due
C15_Witness ==
    \E t \in TableNames :
      /\ cycle = 2
      /\ SentOk(t, RemoveOrphanFiles)
      /\ SentOk(t, ExpireSnapshots)
      /\ props[t].last_optimized_on = Some(now)
      /\ checked[t].opt.due = "not_due"
      /\ Truthy(props[t].should_optimize)
      /\ perf[t].opt = 1

\* the columns of a row other than the two watermarks
PolicyColumns == DOMAIN NoProps \ {"last_optimized_on", "last_analyzed_on"}

\* the step is the successful watermark update of the task of table r
WroteBy(r, kind) == issued'[r] = Append(issued[r], Cmd(r, kind, None, TRUE))

\* C16: no step adds or deletes a row of the store or changes a column other
\* than last_optimized_on and last_analyzed_on, and a watermark of the row of
\* table T changes only in the step in which the task of T issues its update
\* of that watermark: no other task, and no remove-orphan-files or
\* expire-snapshots command, changes anything.
C16_StoreFrame ==
    [][/\ DOMAIN store' = DOMAIN store
       /\ \A r \in DOMAIN store :
            /\ store'[r].table_name = r
            /\ \A c \in PolicyColumns : store'[r][c] = store[r][c]
            /\ store'[r].last_optimized_on # store[r].last_optimized_on
                 => (pc[r] = "opt_update" /\ WroteBy(r, UpdateLastOptimizedOn))
            /\ store'[r].last_analyzed_on # store[r].last_analyzed_on
                 => (pc[r] = "an_update" /\ WroteBy(r, UpdateLastAnalyzedOn))]_vars

\* in one cycle the two tasks each wrote the watermark of their own row,
\* after a remove-orphan-files and an expire-snapshots command
C16_Witness ==
    /\ SentOk("t1", RemoveOrphanFiles) /\ SentOk("t1", UpdateLastOptimizedOn)
    /\ SentOk("t2", ExpireSnapshots) /\ SentOk("t2", UpdateLastAnalyzedOn)
    /\ store["t1"].last_optimized_on = Some(now)
    /\ store["t2"].last_analyzed_on = Some(now)
    /\ store["t1"].last_analyzed_on = None
    /\ store["t2"].last_optimized_on = None

WatermarkColumns == {"last_optimized_on", "last_analyzed_on"}

\* C17: in no step does a watermark of a row decrease or go from present to
\* absent, and a watermark that changes is set to the instant of the step.
C17_WatermarksMonotonic ==
    [][\A r \in DOMAIN store : \A c \in WatermarkColumns :
         /\ store[r][c] # None
              => (store'[r][c] # None /\ Val(store'[r][c]) >= Val(store[r][c]))
         /\ store'[r][c] # store[r][c] => store'[r][c] = Some(now)]_vars

\* the second cycle advanced the watermark the first cycle had written, while
\* the other table's task wrote its own
C17_Witness ==
    /\ cycle = 2
    /\ props["t1"].last_optimized_on # None
    /\ Val(props["t1"].last_optimized_on) > 0
    /\ store["t1"].last_optimized_on = Some(now)
    /\ now > Val(props["t1"].last_optimized_on)
    /\ store["t2"].last_analyzed_on = Some(now)
    /\ Running("t2")

\* what the engine analyzes for an ANALYZE statement: every column when the
\* statement has no WITH clause, else the columns its string literals name
Scope(arg) ==
    IF arg = <<>>
    THEN [all |-> TRUE, columns |-> <<>>]
    ELSE [all |-> FALSE,
          columns |-> [k \in DOMAIN arg |->
                         IF arg[k].quote = "'" THEN Some(arg[k].text) ELSE None]]

\* C18: an analyze command is scoped to exactly the columns of
\* columns_to_analyze, in their order, when that list is non-empty, and to all
\* columns when it is empty or absent.
C18_ColumnScoping ==
    \A t \in TableNames : \A i \in At(t, Analyze) :
      LET columns == props[t].columns_to_analyze
      IN IF columns # None /\ Val(columns) # <<>>
         THEN Scope(issued[t][i].arg)
                = [all |-> FALSE,
                   columns |-> [k \in DOMAIN Val(columns) |-> Some(Val(columns)[k])]]
         ELSE Scope(issued[t][i].arg).all

\* analyze was issued for the columns b, a, in that order
C18_Witness ==
    \E t \in TableNames :
      /\ props[t].columns_to_analyze = Some(<<"b", "a">>)
      /\ SentOk(t, Analyze)
      /\ Scope(issued[t][Len(issued[t])].arg).all = FALSE

\* the tables named by the rows the cycle fetched
FetchedTables == {tasks[i].table_name : i \in DOMAIN tasks}

\* C19: the rows a cycle fetches are the rows of the store, one task is
\* created per row, and every command of a task names the table of its row;
\* a table without a row gets no task, no connection and no command.  With an
\* empty store the cycle issues no command and can return at once.
C19_OnlyConfigured ==
    /\ \A t \in TableNames :
         /\ \A i \in DOMAIN issued[t] :
              issued[t][i].table = t /\ issued[t][i].table \in DOMAIN store
         /\ t \notin DOMAIN store
              => (pc[t] = "none" /\ issued[t] = <<>> /\ conn[t] = NoConn)
    /\ dpc # "idle"
         => (FetchedTables = DOMAIN store /\ Len(tasks) = Cardinality(DOMAIN store))
    /\ dpc = "as_completed" => SubmittedTasks = DOMAIN store
    /\ (DOMAIN store = {} /\ returned.status = "running")
         => (dpc = "as_completed" /\ ENABLED run_maintenance_return)

\* a cycle over a store with one row returned: the task of that table ran its
\* commands, the other tables were left alone
C19_Witness ==
    /\ DOMAIN store = {"t1"}
    /\ returned.status = "returned"
    /\ pc["t1"] = "succeeded"
    /\ Len(issued["t1"]) >= 3
    /\ pc["t2"] = "none"

\* in the log of task t every successful command of kind action is followed
\* at once by the command of kind update, unless it is the last one
FollowedBy(t, action, update) ==
    \A i \in At(t, action) :
      (issued[t][i].ok /\ i < Len(issued[t])) => issued[t][i + 1].kind = update

\* the action succeeded and its update has not succeeded: the task is about
\* to issue the update or has failed in it, and the watermark is stale
StaleAfter(t, action, update, column, step) ==
    (SentOk(t, action) /\ ~SentOk(t, update))
      => /\ store[t][column] = props[t][column]
         /\ IF Sent(t, update)
            THEN pc[t] = "failed" /\ Val(exc[t]).cause = update
            ELSE pc[t] = step

\* C20: the command a task issues next after a successful optimize (analyze)
\* is the update of last_optimized_on (last_analyzed_on) of its table; while
\* that update has not succeeded the watermark is the one the task found, a
\* failed update leaves the task Failed, and the row the next call of
\* run_maintenance fetches makes the same action due again.
C20_BookkeepingFollows ==
    /\ [](\A t \in DOMAIN store :
            /\ FollowedBy(t, Optimize, UpdateLastOptimizedOn)
            /\ FollowedBy(t, Analyze, UpdateLastAnalyzedOn)
            /\ StaleAfter(t, Optimize, UpdateLastOptimizedOn, "last_optimized_on",
                          "opt_update")
            /\ StaleAfter(t, Analyze, UpdateLastAnalyzedOn, "last_analyzed_on",
                          "an_update")
            /\ \A i \in At(t, UpdateLastOptimizedOn) \cup At(t, UpdateLastAnalyzedOn) :
                 issued[t][i].table = t)
    /\ [][(dpc = "idle" /\ dpc' = "submit")
            => \A t \in DOMAIN store : \A i \in Fetched(t) :
                 /\ (Sent(t, UpdateLastOptimizedOn) /\ ~SentOk(t, UpdateLastOptimizedOn))
                      => SpecDue(tasks'[i].should_optimize, tasks'[i].last_optimized_on,
                                 tasks'[i].days_to_optimize, now')
                 /\ (Sent(t, UpdateLastAnalyzedOn) /\ ~SentOk(t, UpdateLastAnalyzedOn))
                      => SpecDue(tasks'[i].should_analyze, tasks'[i].last_analyzed_on,
                                 tasks'[i].days_to_analyze, now')]_vars

\* the update of last_optimized_on failed in the first cycle, and the second
\* cycle, at the same instant, optimized the table again and wrote the watermark
C20_Witness ==
    \E t \in DOMAIN store :
      /\ cycle = 2
      /\ perf[t].optUpdFail = 1
      /\ perf[t].opt = 2
      /\ props[t].days_to_optimize = Some(1)
      /\ SentOk(t, UpdateLastOptimizedOn)
      /\ store[t].last_optimized_on = Some(now)

\* the task optimized, wrote last_optimized_on and then failed in analyze or
\* in the update of last_analyzed_on
FailedAfterOptimize(t) ==
    /\ pc[t] = "failed"
    /\ SentOk(t, UpdateLastOptimizedOn)
    /\ Val(exc[t]).cause \in {Analyze, UpdateLastAnalyzedOn}

\* C21: a task that fails in analyze or in its watermark update after optimize
\* and its update succeeded is Failed, and last_optimized_on keeps the instant
\* the update wrote while last_analyzed_on is as the task found it; the row
\* the next call of run_maintenance fetches holds that watermark, makes
\* analyze due again and, when the call comes at the same instant and the
\* interval is at least a day, makes optimize not due.
C21_PartialProgressKept ==
    /\ [](\A t \in DOMAIN store :
            FailedAfterOptimize(t)
              => /\ exc[t] # None
                 /\ store[t].last_optimized_on # None
                 /\ checked[t].opt.at <= Val(store[t].last_optimized_on)
                 /\ Val(store[t].last_optimized_on) <= now
                 /\ store[t].last_analyzed_on = props[t].last_analyzed_on)
    /\ [][(dpc = "idle" /\ dpc' = "submit")
            => \A t \in DOMAIN store : \A i \in Fetched(t) :
                 FailedAfterOptimize(t)
                   => /\ tasks'[i].last_optimized_on = store[t].last_optimized_on
                      /\ SpecDue(tasks'[i].should_analyze, tasks'[i].last_analyzed_on,
                                 tasks'[i].days_to_analyze, now')
                      /\ (/\ tasks'[i].days_to_optimize # None
                          /\ Val(tasks'[i].days_to_optimize) >= 1
                          /\ store[t].last_optimized_on = Some(now'))
                           => ~SpecDue(tasks'[i].should_optimize,
                                       tasks'[i].last_optimized_on,
                                       tasks'[i].days_to_optimize, now')]_vars

\* the first cycle optimized and failed in the update of last_analyzed_on; the
\* second cycle, at the same instant, found optimize not due, analyzed again
\* and wrote last_analyzed_on
C21_Witness ==
    \E t \in DOMAIN store :
      /\ cycle = 2
      /\ perf[t].opt = 1 /\ perf[t].optUpdFail = 0
      /\ perf[t].an = 2 /\ perf[t].anUpdFail = 1
      /\ props[t].last_optimized_on = Some(now)
      /\ props[t].days_to_optimize = Some(1)
      /\ checked[t].opt.due = "not_due"
      /\ ~Sent(t, Optimize)
      /\ SentOk(t, UpdateLastAnalyzedOn)
      /\ pc[t] = "succeeded"

\* the verdicts of the two variants on one operation of a row: with the flag
\* off both say not due, with the flag set and no watermark both say due, and
\* with the flag set, a watermark and an interval the script says due exactly
\* when the package says not due, which is when watermark + interval > now
Disagree(should, last, days, at, script, package) ==
    /\ ~Truthy(should) => (script = "not_due" /\ package = "not_due")
    /\ (Truthy(should) /\ last = None) => (script = "due" /\ package = "due")
    /\ (Truthy(should) /\ last # None /\ days # None)
         => /\ script \in {"due", "not_due"}
            /\ package \in {"due", "not_due"}
            /\ script = "due" <=> package = "not_due"
            /\ script = "due" <=> Val(last) + Val(days) * TicksPerDay > at

\* C22: on every row and at every instant, for optimize and for analyze, the
\* standalone script and the package agree when the flag is off (not due) and
\* when the flag is set and the watermark absent (due), and give opposite
\* verdicts when the flag is set and the watermark present.
C22_VariantsDisagree ==
    \A t \in TableNames :
      standalone[t] # None
        => LET c == Val(standalone[t])
           IN /\ Disagree(c.row.should_optimize, c.row.last_optimized_on,
                          c.row.days_to_optimize, c.at, c.script.opt, c.package.opt)
              /\ Disagree(c.row.should_analyze, c.row.last_analyzed_on,
                          c.row.days_to_analyze, c.at, c.script.an, c.package.an)

\* a watermark exactly one day old: the package optimizes, the script does not
C22_Witness ==
    \E t \in TableNames :
      /\ standalone[t] # None
      /\ LET c == Val(standalone[t])
         IN /\ Truthy(c.row.should_optimize)
            /\ c.row.last_optimized_on # None
            /\ c.row.days_to_optimize = Some(1)
            /\ c.at = Val(c.row.last_optimized_on) + TicksPerDay
            /\ c.package.opt = "due"
            /\ c.script.opt = "not_due"
=============================================================================
